---- MODULE Spec2Model ----
(***************************************************************************)
(* Model of plotter_main.py: the Widget that owns a 2-D array read from a  *)
(* text file, the CustomTableModel that shows a window of that array, and  *)
(* the three button handlers (replot, table_recenter, new_csv).            *)
(*                                                                         *)
(* An array is represented by the file it was read from and its shape; the *)
(* value of a cell is a function of the file and the cell's indices        *)
(* (FileCell).  A numpy basic slice is a view: it is represented by its    *)
(* base array and the resolved half-open row and column ranges.            *)
(* Floating point values are counted in eighths, which binary floats       *)
(* represent exactly.                                                      *)
(***************************************************************************)
EXTENDS Integers, Sequences, FiniteSets, TLC

VARIABLES data, shape, tableindex, model, canvas, last, fname, data_arr

vars == <<data, shape, tableindex, model, canvas, last, fname, data_arr>>

----------------------------------------------------------------------------
(* Bounds of the inputs the user can supply.                               *)

\* largest number of lines / fields of a grid file, largest center entered
MaxDim == 151
\* largest number of lines of an explicitly written text file
MaxLines == 3
\* largest number of fields on a line of an explicitly written text file
MaxFields == 2

(* Program constants.                                                      *)

\* `self.tabledata.shape[0] < 101`
SliceThreshold == 101
\* `self.tableindex[1] - 50`, `self.tableindex[1] + 50`
HalfWindow == 50
\* `self.tableindex = [51, 51]`
DefaultCenter == 51

Max(a, b) == IF a >= b THEN a ELSE b
Min(a, b) == IF a <= b THEN a ELSE b

----------------------------------------------------------------------------
(* Files.  A grid file is a whitespace separated numeric grid of `lines`   *)
(* lines with `fields` numbers each.  The name "" is what the file dialog  *)
(* returns when it is cancelled.                                           *)

LineCounts == {1, 100, SliceThreshold, MaxDim}
FieldCounts == {1, 60, MaxDim}

GridFiles == [name : {"a.txt"}, lines : LineCounts, fields : FieldCounts]
            \cup [name : {"b.txt"}, lines : {100, MaxDim}, fields : {MaxDim}]

Cancelled == [name |-> "", lines |-> 0, fields |-> 0]

\* the texts the user can have in the center column / center row fields:
\* an integer, or (<<>>) a text that is not an integer, such as the initial
\* 'Center column'
Centers == {10, HalfWindow, MaxDim - 1}
NotANumber == <<>>
CenterTexts == {<<c>> : c \in Centers} \cup {NotANumber}

\* the texts of the shift / multiply fields: numeric or not
FloatTexts == {"shift y values", "0.5"}

\* the number in cell (i, j) of a grid file, zero based, in eighths
FileCell(name, i, j) == ((IF name = "a.txt" THEN 1 ELSE 4) + 3 * i + 5 * j) % 64

\* np.squeeze of a shape, as genfromtxt applies it to its result
Squeeze(shp) == SelectSeq(shp, LAMBDA d : d # 1)

\* read_data on a grid file: the array read, or the exception raised
read_data_grid(f) ==
    IF f.name = ""
    THEN [exc |-> "OSError", line |-> 19]
    ELSE [exc |-> "none", line |-> 0,
          arr |-> [file |-> f.name, shape |-> Squeeze(<<f.lines, f.fields>>)]]

\* np.shape(arr)
np_shape(arr) == arr.shape

\* arr[i, j] of a 2-D array, zero based
At(arr, i, j) == FileCell(arr.file, i, j)

----------------------------------------------------------------------------
(* Python slicing.                                                         *)

\* slice(lo, hi).indices(n) for step 1: the resolved start or stop
SliceBound(k, n) == IF k < 0 THEN Max(k + n, 0) ELSE Min(k, n)

\* arr[lo_r:hi_r, lo_c:hi_c]: a view on arr
Slice2(arr, lo_r, hi_r, lo_c, hi_c) ==
    [base |-> arr,
     r0 |-> SliceBound(lo_r, arr.shape[1]), r1 |-> SliceBound(hi_r, arr.shape[1]),
     c0 |-> SliceBound(lo_c, arr.shape[2]), c1 |-> SliceBound(hi_c, arr.shape[2])]

\* the whole array seen as a view
Whole(arr) ==
    [base |-> arr, r0 |-> 0, r1 |-> arr.shape[1], c0 |-> 0, c1 |-> arr.shape[2]]

\* np.shape of a view
ViewShape(v) == <<Max(v.r1 - v.r0, 0), Max(v.c1 - v.c0, 0)>>

\* view[i, j]
ViewAt(v, i, j) == At(v.base, v.r0 + i, v.c0 + j)

----------------------------------------------------------------------------
(* CustomTableModel.  The result of the constructor is the object built or *)
(* the exception raised.  The fields lower_row .. upper_col exist only in  *)
(* an object whose constructor took the slicing branch.                    *)

None == <<>>

Raised(e, l) == [exc |-> e, line |-> l]

\* lines 35-38 with the slice end taken as inclusive
WindowBounds_inclusive(ti) ==
    [lower_row |-> ti[2] - HalfWindow, upper_row |-> ti[2] + HalfWindow + 1,
     lower_col |-> ti[1] - HalfWindow, upper_col |-> ti[1] + HalfWindow + 1]

\* the four bounds computed from tableindex = [col, row]
WindowBounds(ti) ==
    [lower_row |-> ti[2] - HalfWindow, upper_row |-> ti[2] + HalfWindow,
     lower_col |-> ti[1] - HalfWindow, upper_col |-> ti[1] + HalfWindow]

CustomTableModel(d, ti) ==
    IF Len(d.shape) = 0
    THEN Raised("IndexError", 32)
    ELSE IF d.shape[1] < SliceThreshold
    THEN IF Len(d.shape) # 2
         THEN Raised("ValueError", 40)
         ELSE [exc |-> "none", line |-> 0,
               obj |-> [tabledata |-> Whole(d), tableindex |-> ti,
                        row_count |-> d.shape[1], column_count |-> d.shape[2]]]
    ELSE IF ti = None
    THEN Raised("TypeError", 35)
    ELSE IF Len(d.shape) # 2
    THEN Raised("IndexError", 39)
    ELSE LET b == WindowBounds(ti)
             view == Slice2(d, b.lower_row, b.upper_row, b.lower_col, b.upper_col)
         IN [exc |-> "none", line |-> 0,
             obj |-> [tabledata |-> view, tableindex |-> ti,
                      lower_row |-> b.lower_row, upper_row |-> b.upper_row,
                      lower_col |-> b.lower_col, upper_col |-> b.upper_col,
                      row_count |-> ViewShape(view)[1],
                      column_count |-> ViewShape(view)[2]]]

rowCount(m) == m.row_count

columnCount(m) == m.column_count

\* headerData(section, orientation, DisplayRole): <<label>>, or <<>> when the
\* call raises (AttributeError for a missing field, IndexError for a section
\* outside the list)
headerData(m, section, orientation) ==
    IF orientation = "Horizontal"
    THEN IF "lower_col" \notin DOMAIN m THEN <<>>
         ELSE IF section >= m.upper_col - m.lower_col THEN <<>>
         ELSE <<m.lower_col + section>>
    ELSE IF "lower_row" \notin DOMAIN m THEN <<>>
         ELSE IF section >= m.upper_row - m.lower_row THEN <<>>
         ELSE <<m.lower_row + section>>

\* "{:.2f}".format(v): v in eighths, the result in hundredths; a tie is
\* rounded to the even hundredth
Format2f(v) ==
    LET t == v * 125
        q == t \div 10
    IN IF t % 10 = 5 THEN (IF q % 2 = 0 THEN q ELSE q + 1) ELSE q

\* data(index, DisplayRole)
ModelData(m, i, j) == Format2f(ViewAt(m.tabledata, i, j))

----------------------------------------------------------------------------
(* Widget.                                                                 *)

\* float(text) / int(text) succeed
IsFloat(text) == text = "0.5"
IsInt(text) == text # NotANumber

Done(op, exc, line, drew, file) ==
    [op |-> op, exc |-> exc, line |-> line, drew |-> drew, file |-> file]

\* plot(data) draws: contourf(data[1:, 0], data[0, 1:], data[1:, 1:]) accepts
\* the three arguments when z is at least 2 x 2 and len(x) is the number of
\* columns of z, len(y) its number of rows
PlotDraws(arr) ==
    /\ Len(arr.shape) = 2
    /\ arr.shape[1] >= 3
    /\ arr.shape[2] >= 3
    /\ arr.shape[1] - 1 = arr.shape[2] - 1

\* Widget.__init__ ran to its end on file f: open_csv, the table model,
\* plot(self.data)
InitWidget(f) ==
    LET rd == read_data_grid(f)
        res == CustomTableModel(rd.arr, <<DefaultCenter, DefaultCenter>>)
    IN /\ rd.exc = "none"
       /\ res.exc = "none"
       /\ PlotDraws(rd.arr)
       /\ data = rd.arr
       /\ shape = np_shape(rd.arr)
       /\ tableindex = <<DefaultCenter, DefaultCenter>>
       /\ model = res.obj
       /\ canvas = rd.arr
       /\ last = Done("init", "none", 0, TRUE, f)

NoFile == <<>>
Unread == [exc |-> "unread"]

Init ==
    /\ \E f \in GridFiles : InitWidget(f)
    /\ fname = NoFile
    /\ data_arr = Unread

\* replot: float() of the two texts, then self.num_files, which Widget never
\* sets
replot ==
    /\ \E shift_y_values \in FloatTexts, multiply_y_values \in FloatTexts :
         last' = IF ~IsFloat(shift_y_values)
                 THEN Done("replot", "ValueError", 229, FALSE, Cancelled)
                 ELSE IF ~IsFloat(multiply_y_values)
                 THEN Done("replot", "ValueError", 230, FALSE, Cancelled)
                 ELSE Done("replot", "AttributeError", 231, FALSE, Cancelled)
    /\ UNCHANGED <<data, shape, tableindex, model, canvas, fname, data_arr>>

\* table_recenter that keeps the slice in self.data
table_recenter_keeps_slice ==
    /\ \E col \in CenterTexts, row \in CenterTexts :
         IF ~IsInt(col) \/ ~IsInt(row)
         THEN /\ last' = Done("table_recenter", "ValueError", 244, FALSE, Cancelled)
              /\ UNCHANGED <<tableindex, model, data>>
         ELSE LET ti == <<col[1], row[1]>>
                  res == CustomTableModel(data, ti)
              IN /\ tableindex' = ti
                 /\ IF res.exc = "none"
                    THEN /\ model' = res.obj
                         /\ data' = [data EXCEPT !.shape = ViewShape(res.obj.tabledata)]
                         /\ last' = Done("table_recenter", "none", 0, FALSE, Cancelled)
                    ELSE /\ UNCHANGED <<model, data>>
                         /\ last' = Done("table_recenter", res.exc, res.line, FALSE, Cancelled)
    /\ UNCHANGED <<shape, canvas, fname, data_arr>>

table_recenter ==
    /\ \E col \in CenterTexts, row \in CenterTexts :
         IF ~IsInt(col) \/ ~IsInt(row)
         THEN /\ last' = Done("table_recenter", "ValueError", 244, FALSE, Cancelled)
              /\ UNCHANGED <<tableindex, model>>
         ELSE LET ti == <<col[1], row[1]>>
                  res == CustomTableModel(data, ti)
              IN /\ tableindex' = ti
                 /\ IF res.exc = "none"
                    THEN /\ model' = res.obj
                         /\ last' = Done("table_recenter", "none", 0, FALSE, Cancelled)
                    ELSE /\ UNCHANGED model
                         /\ last' = Done("table_recenter", res.exc, res.line, FALSE, Cancelled)
    /\ UNCHANGED <<data, shape, canvas, fname, data_arr>>

\* new_csv: self.plot is the bound method plot, which has no set_data
new_csv ==
    /\ \E f \in GridFiles \cup {Cancelled} :
         LET rd == read_data_grid(f)
         IN IF rd.exc # "none"
            THEN /\ last' = Done("new_csv", rd.exc, 263, FALSE, f)
                 /\ UNCHANGED <<data, shape, model>>
            ELSE LET res == CustomTableModel(rd.arr, None)
                 IN /\ data' = rd.arr
                    /\ shape' = np_shape(rd.arr)
                    /\ IF res.exc = "none"
                       THEN /\ model' = res.obj
                            /\ last' = Done("new_csv", "AttributeError", 269, FALSE, f)
                       ELSE /\ UNCHANGED model
                            /\ last' = Done("new_csv", res.exc, res.line, FALSE, f)
    /\ UNCHANGED <<tableindex, canvas, fname, data_arr>>

Next == replot \/ table_recenter \/ new_csv

Spec == Init /\ [][Next]_vars

----------------------------------------------------------------------------
(* read_data on a text file written out token by token.  A file is the     *)
(* sequence of its non-empty lines, a line the sequence of its whitespace  *)
(* separated fields.  np.genfromtxt(fname, dtype='float64') converts each  *)
(* field to a float, a field that is not a number to nan, and raises       *)
(* ValueError when the lines do not all have the same number of fields.    *)

\* the fields a line can hold and, for the numeric ones, their value in eighths
NumText == ("1.5" :> 12) @@ ("2" :> 16)
Tokens == DOMAIN NumText \cup {"wavelength"}

TextLines == UNION {[1..k -> Tokens] : k \in 1..MaxFields}
TextFiles == UNION {[1..n -> TextLines] : n \in 0..MaxLines}

IsNumber(tok) == tok \in DOMAIN NumText

\* the float a field is converted to
ToFloat(tok) ==
    IF IsNumber(tok) THEN [nan |-> FALSE, v |-> NumText[tok]]
                     ELSE [nan |-> TRUE, v |-> 0]

\* the array of the given rows of floats: its squeezed shape and its values in
\* row-major order
ArrayOfRows(rows) ==
    IF Len(rows) = 0
    THEN [exc |-> "none", shape |-> <<0>>, vals |-> <<>>]
    ELSE LET n == Len(rows)
             m == Len(rows[1])
         IN [exc |-> "none", shape |-> Squeeze(<<n, m>>),
             vals |-> [k \in 1..(n * m) |->
                         rows[((k - 1) \div m) + 1][((k - 1) % m) + 1]]]

\* read_data that drops the lines holding a field that is not a number
read_data_dropping(lines) ==
    LET kept == SelectSeq(lines, LAMBDA l : \A k \in 1..Len(l) : l[k] \in DOMAIN NumText)
    IN IF \E i \in 1..Len(kept) : Len(kept[i]) # Len(kept[1])
       THEN [exc |-> "ValueError"]
       ELSE ArrayOfRows([i \in 1..Len(kept) |->
                           [k \in 1..Len(kept[i]) |-> ToFloat(kept[i][k])]])

read_data(lines) ==
    IF \E i \in 1..Len(lines) : Len(lines[i]) # Len(lines[1])
    THEN [exc |-> "ValueError"]
    ELSE ArrayOfRows([i \in 1..Len(lines) |->
                        [k \in 1..Len(lines[i]) |-> ToFloat(lines[i][k])]])

\* the widget is up and the user has chosen a text file
InitRead ==
    /\ \E f \in GridFiles : InitWidget(f)
    /\ fname \in TextFiles
    /\ data_arr = Unread

\* the call of read_data on the chosen file
read_file ==
    /\ data_arr = Unread
    /\ data_arr' = read_data(fname)
    /\ UNCHANGED <<data, shape, tableindex, model, canvas, last, fname>>

SpecRead == InitRead /\ [][read_file]_vars

----------------------------------------------------------------------------
(* The claims.                                                             *)

\* the array the installed table model was built from
ModelBase == model.tabledata.base

\* the last action was an import that got past reading its file
FileWasRead == last.op = "new_csv" /\ last.line # 263

\* C1: the window bounds lower_row, upper_row, lower_col, upper_col of the
\* table model lie within the array it was built from:
\* 0 <= lower <= upper <= number of rows / columns.
C1_WindowWithinArray ==
    "lower_row" \in DOMAIN model =>
        /\ 0 <= model.lower_row
        /\ model.lower_row <= model.upper_row
        /\ model.upper_row <= ModelBase.shape[1]
        /\ 0 <= model.lower_col
        /\ model.lower_col <= model.upper_col
        /\ model.upper_col <= ModelBase.shape[2]

\* the table model was built with a center index from an array of more than
\* 100 rows and more than 100 columns
LargeWithCenter ==
    /\ model.tableindex # None
    /\ Len(ModelBase.shape) = 2
    /\ ModelBase.shape[1] > 100
    /\ ModelBase.shape[2] > 100

\* the center lies at least 50 from both ends of both axes
CenterInterior ==
    /\ HalfWindow <= model.tableindex[2]
    /\ model.tableindex[2] <= ModelBase.shape[1] - HalfWindow
    /\ HalfWindow <= model.tableindex[1]
    /\ model.tableindex[1] <= ModelBase.shape[2] - HalfWindow

\* C2 as stated: for an array larger than 100 x 100 and every center index
\* the table model has exactly 100 rows and 100 columns.
C2_Always100x100 ==
    LargeWithCenter => rowCount(model) = 100 /\ columnCount(model) = 100

\* C2 as amended: for an array larger than 100 x 100 and every center index
\* (col, row) with 50 <= row <= rows - 50 and 50 <= col <= columns - 50 the
\* table model has exactly 100 rows and 100 columns.
C2_Interior100x100 ==
    (LargeWithCenter /\ CenterInterior) =>
        rowCount(model) = 100 /\ columnCount(model) = 100

\* a recenter on an interior center other than the initial one built the model
C2_Witness ==
    /\ last.op = "table_recenter"
    /\ last.exc = "none"
    /\ LargeWithCenter
    /\ CenterInterior
    /\ model.tableindex # <<DefaultCenter, DefaultCenter>>
    /\ model.tableindex = tableindex
    /\ ModelBase = data

\* C3: the table model never exposes more than 100 rows or 100 columns.
C3_AtMost100x100 ==
    rowCount(model) <= 100 /\ columnCount(model) <= 100

\* C4: a replot or a table_recenter leaves Widget.data (its origin, row and
\* column counts, hence its values) and Widget.shape as they were; only an
\* import changes them.
C4_DataFixedBetweenImports ==
    [][last'.op \in {"replot", "table_recenter"} =>
          (data' = data /\ shape' = shape)]_vars

\* a recenter has installed a table model that shows a strict sub-block of the
\* loaded array
C4_Witness ==
    /\ last.op = "table_recenter"
    /\ last.exc = "none"
    /\ ModelBase = data
    /\ rowCount(model) > 0
    /\ rowCount(model) < data.shape[1]
    /\ shape = data.shape

\* C5: after an import that read a file (here: one that holds a 2-D grid),
\* Widget.data, Widget.shape and the installed table model are all derived from
\* the file just read.
C5_ImportReplacesAll ==
    (FileWasRead /\ last.file.lines > 1 /\ last.file.fields > 1) =>
        /\ data = read_data_grid(last.file).arr
        /\ shape = np_shape(data)
        /\ ModelBase = data

\* C6: an import that read a file runs through to its render step and the
\* canvas shows the new data; a replot runs through to its render step.
C6_ActionsReachRender ==
    /\ FileWasRead => (last.drew /\ canvas = data)
    /\ last.op = "replot" => last.drew

\* the line holds numbers only
IsNumericLine(l) == \A k \in 1..Len(l) : IsNumber(l[k])

\* C7: for a file with numeric lines and header or footer lines, the array
\* read_data returns holds exactly the lines of the file all of whose fields are
\* numbers, in file order, as floats.
C7_OnlyNumericRows ==
    (/\ data_arr.exc = "none"
     /\ \E i \in 1..Len(fname) : IsNumericLine(fname[i]))
    => data_arr = read_data_dropping(fname)

\* source[k] for a Python index k of an axis of length n
PyIndex(k, n) == IF k < 0 THEN k + n ELSE k

\* C8: for every displayed cell (i, j), headerData returns a label for
\* vertical section i and horizontal section j, and data(i, j) is the value at
\* source[vertical label, horizontal label].
C8_HeadersAreSourceIndices ==
    \A i \in 0..(rowCount(model) - 1), j \in 0..(columnCount(model) - 1) :
        LET v == headerData(model, i, "Vertical")
            h == headerData(model, j, "Horizontal")
        IN /\ v # <<>>
           /\ h # <<>>
           /\ ModelData(model, i, j) =
                Format2f(At(ModelBase, PyIndex(v[1], ModelBase.shape[1]),
                                       PyIndex(h[1], ModelBase.shape[2])))

\* C9: after table_recenter with a valid center (c, r) of an array of more
\* than 100 rows, the window is not empty and holds row r and column c.
C9_CenterInWindow ==
    (/\ last.op = "table_recenter"
     /\ last.exc = "none"
     /\ data.shape[1] > 100
     /\ 0 <= tableindex[2] /\ tableindex[2] < data.shape[1]
     /\ 0 <= tableindex[1] /\ tableindex[1] < data.shape[2])
    => /\ model.tabledata.r0 <= tableindex[2]
       /\ tableindex[2] < model.tabledata.r1
       /\ model.tabledata.c0 <= tableindex[1]
       /\ tableindex[1] < model.tabledata.c1

====
